---------------------------- MODULE Spec2Model ----------------------------
(***************************************************************************)
(* The segmented download engine of surge (package downloader):            *)
(* concurrentDownload, newWorker, Worker.start, Worker.downloadSegment.    *)
(*                                                                         *)
(* Threads: the coordinator (concurrentDownload itself), one goroutine per *)
(* worker, the progress loop and the splitter loop.  Shared state: the     *)
(* Segment objects, the segments slice, the workers slice, the job channel,*)
(* the WaitGroup, totalDownloaded, and the three kinds of sync.Mutex.      *)
(*                                                                         *)
(* Sizes are scaled: bytes are counted in units, and InitialSegments,      *)
(* MaxWorkers, MinSegmentSize and ReadChunkSize carry small values in      *)
(* place of 8, 128, 2 MiB and 32 KiB, so that TLC can enumerate the        *)
(* interleavings.  The arithmetic on them is the source's.                 *)
(*                                                                         *)
(* Three specifications are given.                                         *)
(*   Spec       the program as written.  sync.Mutex is not reentrant: a    *)
(*              Lock of a mutex that is locked blocks, whoever locked it.  *)
(*   CancelSpec the program as written, with a caller that may cancel the  *)
(*              download's ctx at any point.                               *)
(*   TuiSpec    the update loop of the terminal UI (package tui), which    *)
(*              consumes the progress and completion messages.             *)
(*   SplitSpec  the same threads, with the two Lock calls that the         *)
(*              splitter makes on a mutex it has itself locked (line 204   *)
(*              before newWorker's line 81; line 223 before Remaining's    *)
(*              line 35) not taken, so that the steps of lines 211-241     *)
(*              run.  It is the specification of the statements about      *)
(*              admissions and splits.                                     *)
(***************************************************************************)
EXTENDS Integers, Sequences, FiniteSets, TLC

\* ------------------------------------------------------------ constants
\* part_000:18 (8 in the source)
InitialSegments == 2
\* part_000:19 (128 in the source)
MaxWorkers == 3
\* part_000:21 (2 MiB in the source); 3 is the least value with which a
\* split at Remaining = MinSegmentSize leaves both halves non-empty
MinSegmentSize == 3
\* part_000:357 (the 32 KiB read buffer)
ReadChunkSize == 2

\* ------------------------------------------------------------ bounds
\* Content-Length values explored: InitialSegments .. MaxTotalSize
MaxTotalSize == 7
\* splitter ticks explored
MaxTicks == 2
\* downloads the terminal UI is given
MaxDownloads == 2

TotalSizes == InitialSegments..MaxTotalSize
\* the sizes among them with which a seeded segment can be split
SplitSizes == {t \in TotalSizes : t \div InitialSegments >= MinSegmentSize}

VARIABLES
    totalSize,        \* Content-Length of the HEAD response
    seg,              \* the Segment objects, by ID: [Start, End, Downloaded, File]
    segments,         \* the segments slice: IDs in slice order
    segmentChan,      \* the buffered job channel: IDs in FIFO order
    chanClosed,       \* close(segmentChan) has run
    workers,          \* the workers slice: worker IDs in order of registration
    wg,               \* the WaitGroup counter
    wpc, wseg, wleft, \* per worker: position, current segment, body bytes unread
    segMu,            \* per segment: holder of Segment.mu
    segmentsMu,       \* holder of segmentsMu
    workersMu,        \* holder of workersMu
    ppc, pidx, pacc,  \* progress loop: position, slice index, currentDownloaded
    totalDownloaded,  \* the variable shared by the progress loop and the splitter
    spc,              \* splitter loop: position
    largestSegment, midpoint, newSegmentEnd, \* splitter locals
    ticks,            \* ticks the splitter has taken
    coordPc,          \* coordinator: position
    cancelled,        \* ctx has been cancelled
    downloads         \* tui: RootModel.downloads, the DownloadModels in order

vars == <<totalSize, seg, segments, segmentChan, chanClosed, workers, wg,
          wpc, wseg, wleft, segMu, segmentsMu, workersMu, ppc, pidx, pacc,
          totalDownloaded, spc, largestSegment, midpoint, newSegmentEnd,
          ticks, coordPc, cancelled, downloads>>

workerVars == <<wpc, wseg, wleft>>
progressVars == <<ppc, pidx, pacc>>
splitterVars == <<spc, largestSegment, midpoint, newSegmentEnd, ticks>>
lockVars == <<segMu, segmentsMu, workersMu>>

NoSeg == -1
Free == "free"

Min(a, b) == IF a <= b THEN a ELSE b

\* Go's integer division truncates toward zero
GoDiv(a, b) == IF a >= 0 THEN a \div b ELSE -((-a) \div b)

Range(s) == {s[i] : i \in 1..Len(s)}

\* ------------------------------------------------------------ Segment
\* Segment.Remaining: End - Start + 1 - Downloaded
Remaining(s) == s.End - s.Start + 1 - s.Downloaded

\* the i-th of n seeded segments (i from 0): equal division, the last one
\* ends at totalSize; the program seeds n = InitialSegments
SeedOf(n, i, total) ==
    LET segmentSize == total \div n
        start == i * segmentSize
    IN [Start |-> start,
        End |-> IF i = n - 1 THEN total ELSE start + segmentSize - 1,
        Downloaded |-> 0,
        File |-> "open"]

\* (mutant) the last segment ends at the last byte of the file
SeedSegmentToLastByte(i, total) ==
    [SeedOf(InitialSegments, i, total) EXCEPT
        !.End = IF i = InitialSegments - 1 THEN total - 1 ELSE @]

SeedSegment(i, total) == SeedOf(InitialSegments, i, total)

\* ------------------------------------------------------------ Init
\* The state at line 170: segments seeded and enqueued, the initial workers
\* registered and started, the two background loops about to start.
Launched ==
    /\ seg = [i \in 0..(InitialSegments - 1) |-> SeedSegment(i, totalSize)]
    /\ segments = [i \in 1..InitialSegments |-> i - 1]
    /\ segmentChan = [i \in 1..InitialSegments |-> i - 1]
    /\ chanClosed = FALSE
    /\ workers = [i \in 1..InitialSegments |-> i - 1]
    /\ wg = InitialSegments
    /\ wpc = [w \in 0..(InitialSegments - 1) |-> "recv"]
    /\ wseg = [w \in 0..(InitialSegments - 1) |-> NoSeg]
    /\ wleft = [w \in 0..(InitialSegments - 1) |-> 0]
    /\ segMu = [i \in 0..(InitialSegments - 1) |-> Free]
    /\ segmentsMu = Free
    /\ workersMu = Free
    /\ ppc = "lock"
    /\ pidx = 1
    /\ pacc = 0
    /\ totalDownloaded = 0
    /\ spc = "tick"
    /\ largestSegment = NoSeg
    /\ midpoint = 0
    /\ newSegmentEnd = 0
    /\ ticks = 0
    /\ coordPc = "wait"
    /\ cancelled = FALSE
    /\ downloads = <<>>

Init == totalSize \in TotalSizes /\ Launched

\* ------------------------------------------------------------ the server
\* The body a range request bytes=a-b is answered with: the bytes a..b that
\* the file has (offsets 0..total-1); no byte (an error status) when the
\* range holds none.
BodyLength(a, b, total) ==
    IF a <= Min(b, total - 1) THEN Min(b, total - 1) - a + 1 ELSE 0

\* ------------------------------------------------------------ Worker
\* (mutant) the receive leaves the segment on the channel
WorkerRecvPeek(w) ==
    /\ wpc[w] = "recv"
    /\ \A v \in DOMAIN wpc : wpc[v] = "recv" => w <= v
    /\ segmentChan # <<>>
    /\ wseg' = [wseg EXCEPT ![w] = Head(segmentChan)]
    /\ wpc' = [wpc EXCEPT ![w] = "request"]
    /\ UNCHANGED <<totalSize, cancelled, downloads, seg, segments, segmentChan, chanClosed,
                   workers, wg, wleft, lockVars, progressVars, totalDownloaded,
                   splitterVars, coordPc>>

\* Worker.start: receive the next segment from the channel.  The goroutines
\* blocked in the receive are interchangeable (a Worker holds its ID, which
\* only log lines read), so the segment is handed to the one of least ID.
WorkerRecv(w) ==
    /\ wpc[w] = "recv"
    /\ \A v \in DOMAIN wpc : wpc[v] = "recv" => w <= v
    /\ segmentChan # <<>>
    /\ wseg' = [wseg EXCEPT ![w] = Head(segmentChan)]
    /\ segmentChan' = Tail(segmentChan)
    /\ wpc' = [wpc EXCEPT ![w] = "request"]
    /\ UNCHANGED <<totalSize, cancelled, downloads, seg, segments, chanClosed, workers, wg, wleft,
                   lockVars, progressVars, totalDownloaded, splitterVars, coordPc>>

\* Worker.start: the channel is closed and drained, the range loop ends and
\* the deferred wg.Done runs
WorkerExit(w) ==
    /\ wpc[w] = "recv"
    /\ segmentChan = <<>>
    /\ chanClosed
    /\ wpc' = [wpc EXCEPT ![w] = "exited"]
    /\ wg' = wg - 1
    /\ UNCHANGED <<totalSize, cancelled, downloads, seg, segments, segmentChan, chanClosed, workers,
                   wseg, wleft, lockVars, progressVars, totalDownloaded,
                   splitterVars, coordPc>>

\* downloadSegment, lines 334-355: the request for
\* bytes=(Start+Downloaded)-End, read from the segment without its lock.
\* ok = FALSE is a request error or a status other than 200/206; a request
\* made with a cancelled ctx returns the ctx's error.
WorkerRequest(w, ok) ==
    /\ wpc[w] = "request"
    /\ ok => ~cancelled
    /\ LET s == seg[wseg[w]]
           n == BodyLength(s.Start + s.Downloaded, s.End, totalSize)
       IN IF ok /\ n > 0
          THEN /\ wleft' = [wleft EXCEPT ![w] = n]
               /\ wpc' = [wpc EXCEPT ![w] = "read"]
               /\ wseg' = wseg
          ELSE /\ wleft' = [wleft EXCEPT ![w] = 0]
               /\ wpc' = [wpc EXCEPT ![w] = "recv"]
               /\ wseg' = [wseg EXCEPT ![w] = NoSeg]
    /\ UNCHANGED <<totalSize, cancelled, downloads, seg, segments, segmentChan, chanClosed, workers, wg,
                   lockVars, progressVars, totalDownloaded, splitterVars, coordPc>>

\* downloadSegment, lines 359-368: one Read of n bytes, written to the part
\* file and added to Downloaded under the segment's lock
WorkerRead(w, n) ==
    /\ wpc[w] = "read"
    /\ n >= 1
    /\ n <= Min(ReadChunkSize, wleft[w])
    /\ segMu[wseg[w]] = Free
    /\ seg' = [seg EXCEPT ![wseg[w]].Downloaded = @ + n]
    /\ wleft' = [wleft EXCEPT ![w] = @ - n]
    /\ UNCHANGED <<totalSize, cancelled, downloads, segments, segmentChan, chanClosed, workers, wg,
                   wpc, wseg, lockVars, progressVars, totalDownloaded,
                   splitterVars, coordPc>>

\* downloadSegment, lines 369-377: io.EOF ends the loop and the part file is
\* closed
WorkerEOF(w) ==
    /\ wpc[w] = "read"
    /\ wleft[w] = 0
    /\ seg' = [seg EXCEPT ![wseg[w]].File = "closed"]
    /\ wpc' = [wpc EXCEPT ![w] = "recv"]
    /\ wseg' = [wseg EXCEPT ![w] = NoSeg]
    /\ UNCHANGED <<totalSize, cancelled, downloads, segments, segmentChan, chanClosed, workers, wg,
                   wleft, lockVars, progressVars, totalDownloaded,
                   splitterVars, coordPc>>

\* (mutant) the failed segment is reset and sent on the channel again
WorkerReadErrorRequeue(w) ==
    /\ wpc[w] = "read"
    /\ wleft[w] > 0
    /\ Len(segmentChan) < MaxWorkers
    /\ seg' = [seg EXCEPT ![wseg[w]].Downloaded = 0]
    /\ segmentChan' = Append(segmentChan, wseg[w])
    /\ wpc' = [wpc EXCEPT ![w] = "recv"]
    /\ wseg' = [wseg EXCEPT ![w] = NoSeg]
    /\ wleft' = [wleft EXCEPT ![w] = 0]
    /\ UNCHANGED <<totalSize, cancelled, downloads, segments, chanClosed, workers, wg,
                   lockVars, progressVars, totalDownloaded, splitterVars, coordPc>>

\* downloadSegment, lines 361-364 and 369-373: a write error or a read error
\* other than io.EOF returns; Worker.start logs and takes the next segment
WorkerReadError(w) ==
    /\ wpc[w] = "read"
    /\ wleft[w] > 0
    /\ wpc' = [wpc EXCEPT ![w] = "recv"]
    /\ wseg' = [wseg EXCEPT ![w] = NoSeg]
    /\ wleft' = [wleft EXCEPT ![w] = 0]
    /\ UNCHANGED <<totalSize, cancelled, downloads, seg, segments, segmentChan, chanClosed, workers, wg,
                   lockVars, progressVars, totalDownloaded, splitterVars, coordPc>>

\* ------------------------------------------------------------ progress loop
\* line 176: segmentsMu.Lock()
ProgressLock ==
    /\ ppc = "lock"
    /\ segmentsMu = Free
    /\ segmentsMu' = "progress"
    /\ ppc' = "sum"
    /\ pidx' = 1
    /\ pacc' = 0
    /\ UNCHANGED <<totalSize, cancelled, downloads, seg, segments, segmentChan, chanClosed, workers, wg,
                   workerVars, segMu, workersMu, totalDownloaded, splitterVars,
                   coordPc>>

\* line 178: s.mu.Lock() of the next segment of the slice
ProgressLockSegment ==
    /\ ppc = "sum"
    /\ pidx <= Len(segments)
    /\ segMu[segments[pidx]] = Free
    /\ segMu' = [segMu EXCEPT ![segments[pidx]] = "progress"]
    /\ ppc' = "add"
    /\ UNCHANGED <<totalSize, cancelled, downloads, seg, segments, segmentChan, chanClosed, workers, wg,
                   workerVars, segmentsMu, workersMu, pidx, pacc, totalDownloaded,
                   splitterVars, coordPc>>

\* lines 179-180: currentDownloaded += s.Downloaded; s.mu.Unlock()
ProgressAdd ==
    /\ ppc = "add"
    /\ pacc' = pacc + seg[segments[pidx]].Downloaded
    /\ segMu' = [segMu EXCEPT ![segments[pidx]] = Free]
    /\ pidx' = pidx + 1
    /\ ppc' = "sum"
    /\ UNCHANGED <<totalSize, cancelled, downloads, seg, segments, segmentChan, chanClosed, workers, wg,
                   workerVars, segmentsMu, workersMu, totalDownloaded,
                   splitterVars, coordPc>>

\* lines 182-190: segmentsMu.Unlock(); totalDownloaded = currentDownloaded;
\* return when totalDownloaded >= totalSize, else sleep and loop
ProgressPublish ==
    /\ ppc = "sum"
    /\ pidx > Len(segments)
    /\ segmentsMu' = Free
    /\ totalDownloaded' = pacc
    /\ ppc' = IF pacc >= totalSize THEN "done" ELSE "lock"
    /\ pidx' = 1
    /\ pacc' = 0
    /\ UNCHANGED <<totalSize, cancelled, downloads, seg, segments, segmentChan, chanClosed, workers, wg,
                   workerVars, segMu, workersMu, splitterVars, coordPc>>

\* ------------------------------------------------------------ splitter loop
\* lines 198-202: a tick; the loop ends once totalDownloaded >= totalSize
SplitterTick ==
    /\ spc = "tick"
    /\ ticks < MaxTicks
    /\ ticks' = ticks + 1
    /\ spc' = IF totalDownloaded >= totalSize THEN "done" ELSE "lockPool"
    /\ UNCHANGED <<totalSize, cancelled, downloads, seg, segments, segmentChan, chanClosed, workers, wg,
                   workerVars, lockVars, progressVars, totalDownloaded,
                   largestSegment, midpoint, newSegmentEnd, coordPc>>

\* line 204: workersMu.Lock()
SplitterLockPool ==
    /\ spc = "lockPool"
    /\ workersMu = Free
    /\ workersMu' = "splitter"
    /\ spc' = "probe"
    /\ UNCHANGED <<totalSize, cancelled, downloads, seg, segments, segmentChan, chanClosed, workers, wg,
                   workerVars, segMu, segmentsMu, progressVars, totalDownloaded,
                   largestSegment, midpoint, newSegmentEnd, ticks, coordPc>>

\* (mutant) a successful probe runs on to line 212 and locks segmentsMu,
\* workersMu still locked
SplitterProbeThenStore(ok) ==
    /\ spc = "probe"
    /\ ok
    /\ segmentsMu = Free
    /\ segmentsMu' = "splitter"
    /\ spc' = "admit"
    /\ UNCHANGED <<totalSize, cancelled, downloads, seg, segments, segmentChan, chanClosed, workers, wg,
                   workerVars, segMu, workersMu, progressVars, totalDownloaded,
                   largestSegment, midpoint, newSegmentEnd, ticks, coordPc>>

\* newWorker, lines 55-79, and the splitter's lines 207-209: the probe.
\* ok = FALSE (a request error or a status other than 200/206) makes
\* newWorker return false and the splitter continue with the next tick; no
\* statement on that path unlocks workersMu.  ok = TRUE leads to line 81.
\* The probe's ctx derives from the download's: once that is cancelled the
\* probe fails.
SplitterProbe(ok) ==
    /\ spc = "probe"
    /\ ok => ~cancelled
    /\ spc' = IF ok THEN "admit" ELSE "tick"
    /\ UNCHANGED <<totalSize, cancelled, downloads, seg, segments, segmentChan, chanClosed, workers, wg,
                   workerVars, lockVars, progressVars, totalDownloaded,
                   largestSegment, midpoint, newSegmentEnd, ticks, coordPc>>

\* newWorker, lines 81-87: workersMu.Lock(); the worker is appended with
\* ID = len(workers), wg.Add(1), its goroutine started; workersMu.Unlock()
NewWorkerRegister ==
    /\ spc = "admit"
    /\ workersMu = Free
    /\ LET newWorkerID == Len(workers)
       IN /\ workers' = Append(workers, newWorkerID)
          /\ wpc' = wpc @@ (newWorkerID :> "recv")
          /\ wseg' = wseg @@ (newWorkerID :> NoSeg)
          /\ wleft' = wleft @@ (newWorkerID :> 0)
    /\ wg' = wg + 1
    /\ spc' = "sort"
    /\ UNCHANGED <<totalSize, cancelled, downloads, seg, segments, segmentChan, chanClosed, lockVars,
                   progressVars, totalDownloaded, largestSegment, midpoint,
                   newSegmentEnd, ticks, coordPc>>

\* line 204 as SplitSpec takes it: the Lock is not taken (see the head of
\* the module), the loop goes on to the call of newWorker
SplitterEnterProbe ==
    /\ spc = "lockPool"
    /\ spc' = "probe"
    /\ UNCHANGED <<totalSize, cancelled, downloads, seg, segments, segmentChan, chanClosed, workers, wg,
                   workerVars, lockVars, progressVars, totalDownloaded,
                   largestSegment, midpoint, newSegmentEnd, ticks, coordPc>>

\* the orders sort.Slice may leave the slice in: the permutations of s in
\* which Remaining does not increase.  sort.Slice is not stable: any segment
\* of greatest Remaining may come first.  Behind the first element, which
\* alone is read before the next sort, ties are put in ID order.
SortedByRemaining(s) ==
    {p \in [1..Len(s) -> Range(s)] :
        /\ \A i, j \in 1..Len(s) : i # j => p[i] # p[j]
        /\ \A i \in 1..(Len(s) - 1) :
              Remaining(seg[p[i]]) >= Remaining(seg[p[i + 1]])
        /\ \A i \in 2..(Len(s) - 1) :
              Remaining(seg[p[i]]) = Remaining(seg[p[i + 1]]) => p[i] < p[i + 1]}

\* lines 212-216: segmentsMu.Lock(); sort by Remaining, descending;
\* largestSegment := segments[0]
SplitterSort ==
    /\ spc = "sort"
    /\ segmentsMu = Free
    /\ segmentsMu' = "splitter"
    /\ \E p \in SortedByRemaining(segments) :
          /\ segments' = p
          /\ largestSegment' = p[1]
    /\ spc' = "check"
    /\ UNCHANGED <<totalSize, cancelled, downloads, seg, segmentChan, chanClosed, workers, wg,
                   workerVars, segMu, workersMu, progressVars, totalDownloaded,
                   midpoint, newSegmentEnd, ticks, coordPc>>

\* lines 218-221: no split when largestSegment.Remaining() < MinSegmentSize
SplitterCheck ==
    /\ spc = "check"
    /\ IF Remaining(seg[largestSegment]) < MinSegmentSize
       THEN /\ segmentsMu' = Free
            /\ spc' = "tick"
            /\ largestSegment' = NoSeg
       ELSE /\ segmentsMu' = segmentsMu
            /\ spc' = "shrink"
            /\ largestSegment' = largestSegment
    /\ UNCHANGED <<totalSize, cancelled, downloads, seg, segments, segmentChan, chanClosed, workers, wg,
                   workerVars, segMu, workersMu, progressVars, totalDownloaded,
                   midpoint, newSegmentEnd, ticks, coordPc>>

\* line 224: Start + Downloaded + Remaining()/2
Midpoint(s) == s.Start + s.Downloaded + GoDiv(Remaining(s), 2)

\* lines 223-227, under largestSegment.mu: midpoint computed, the old End
\* kept in newSegmentEnd, End := midpoint
SplitterShrink ==
    /\ spc = "shrink"
    /\ segMu[largestSegment] = Free
    /\ midpoint' = Midpoint(seg[largestSegment])
    /\ newSegmentEnd' = seg[largestSegment].End
    /\ seg' = [seg EXCEPT ![largestSegment].End = Midpoint(seg[largestSegment])]
    /\ spc' = "create"
    /\ UNCHANGED <<totalSize, cancelled, downloads, segments, segmentChan, chanClosed, workers, wg,
                   workerVars, lockVars, progressVars, totalDownloaded,
                   largestSegment, ticks, coordPc>>

\* (mutant) the new segment starts at the midpoint itself
NewSegmentAtMidpoint(mid, end) ==
    [Start |-> mid, End |-> end, Downloaded |-> 0, File |-> "open"]

\* line 238: the new segment
NewSegment(mid, end) ==
    [Start |-> mid + 1, End |-> end, Downloaded |-> 0, File |-> "open"]

\* lines 229-241: newID := len(segments); the part file is created; on an
\* error the tick ends there.  Otherwise the new segment is appended and
\* sent on the channel (the send waits while the buffer is full), and
\* segmentsMu is unlocked.
SplitterCreate(ok) ==
    /\ spc = "create"
    /\ IF ok
       THEN LET newID == Len(segments)
            IN /\ Len(segmentChan) < MaxWorkers
               /\ seg' = seg @@ (newID :> NewSegment(midpoint, newSegmentEnd))
               /\ segMu' = segMu @@ (newID :> Free)
               /\ segments' = Append(segments, newID)
               /\ segmentChan' = Append(segmentChan, newID)
       ELSE UNCHANGED <<seg, segMu, segments, segmentChan>>
    /\ segmentsMu' = Free
    /\ spc' = "tick"
    /\ largestSegment' = NoSeg
    /\ midpoint' = 0
    /\ newSegmentEnd' = 0
    /\ UNCHANGED <<totalSize, cancelled, downloads, chanClosed, workers, wg, workerVars, workersMu,
                   progressVars, totalDownloaded, ticks, coordPc>>

\* ------------------------------------------------------------ coordinator
\* lines 250-251: wg.Wait() returns once the counter is 0; close(segmentChan)
CoordinatorWait ==
    /\ coordPc = "wait"
    /\ wg = 0
    /\ chanClosed' = TRUE
    /\ coordPc' = "merge"
    /\ UNCHANGED <<totalSize, cancelled, downloads, seg, segments, segmentChan, workers, wg, workerVars,
                   lockVars, progressVars, totalDownloaded, splitterVars>>

\* lines 267-269: the order in which the part files are concatenated, the
\* slice sorted by ID ascending
MergeOrder(s) ==
    CHOOSE p \in [1..Len(s) -> Range(s)] :
        \A i \in 1..(Len(s) - 1) : p[i] < p[i + 1]

\* ------------------------------------------------------------ cancellation
\* the caller cancels ctx (lines 95, 167, 205, 334): an event of the
\* environment; no goroutine of the engine selects on ctx.Done(), the
\* requests made with ctx fail from here on, and a body being read may
\* still deliver bytes it has buffered before its Read returns the error
Cancel ==
    /\ ~cancelled
    /\ cancelled' = TRUE
    /\ UNCHANGED <<totalSize, downloads, seg, segments, segmentChan, chanClosed, workers, wg,
                   workerVars, lockVars, progressVars, totalDownloaded,
                   splitterVars, coordPc>>

\* ------------------------------------------------------------ terminal UI
\* RootModel.Update (internal/tui/update.go), the cases that write a
\* DownloadModel.  Of a DownloadModel the fields ID, Total, Downloaded, done
\* and err (as err # nil) are kept.  The messages come from the progress
\* channel in whatever order the downloader's goroutines sent them.
engineVars ==
    <<totalSize, cancelled, seg, segments, segmentChan, chanClosed, workers, wg,
      workerVars, lockVars, progressVars, totalDownloaded, splitterVars, coordPc>>

DownloadIDs == 1..MaxDownloads
ByteCounts == 0..MaxTotalSize

\* NewDownloadModel(id, url, filename, total)
NewDownloadModel(id, total) ==
    [ID |-> id, Total |-> total, Downloaded |-> 0, done |-> FALSE, err |-> FALSE]

\* the index of the first download with the ID, 0 when there is none: the
\* `for _, d := range m.downloads { if d.ID == id { ...; break } }` loops
Target(id) ==
    IF \E k \in 1..Len(downloads) : downloads[k].ID = id
    THEN CHOOSE k \in 1..Len(downloads) :
             /\ downloads[k].ID = id
             /\ \A l \in 1..(k - 1) : downloads[l].ID # id
    ELSE 0

\* lines 161-164: enter on the last input adds the download optimistically,
\* with ID len(m.downloads) + 1 and Total 0
StartDownloadKey ==
    /\ Len(downloads) < MaxDownloads
    /\ downloads' = Append(downloads, NewDownloadModel(Len(downloads) + 1, 0))
    /\ UNCHANGED engineVars

\* lines 19-38: DownloadStartedMsg sets the Total of the download, or
\* appends a download when the ID is not known
DownloadStartedMsg(id, total) ==
    /\ LET k == Target(id)
       IN IF k # 0
          THEN downloads' = [downloads EXCEPT ![k].Total = total]
          ELSE /\ Len(downloads) < MaxDownloads
               /\ downloads' = Append(downloads, NewDownloadModel(id, total))
    /\ UNCHANGED engineVars

\* lines 40-56: ProgressMsg sets Downloaded to the message's value
ProgressMsg(id, n) ==
    /\ LET k == Target(id)
       IN /\ k # 0
          /\ downloads' = [downloads EXCEPT ![k].Downloaded = n]
    /\ UNCHANGED engineVars

\* lines 58-67: DownloadCompleteMsg sets Downloaded to Total and done
DownloadCompleteMsg(id) ==
    /\ LET k == Target(id)
       IN /\ k # 0
          /\ downloads' = [downloads EXCEPT ![k].Downloaded = downloads[k].Total,
                                            ![k].done = TRUE]
    /\ UNCHANGED engineVars

\* lines 69-77: DownloadErrorMsg sets err and done
DownloadErrorMsg(id) ==
    /\ LET k == Target(id)
       IN /\ k # 0
          /\ downloads' = [downloads EXCEPT ![k].err = TRUE, ![k].done = TRUE]
    /\ UNCHANGED engineVars

\* ------------------------------------------------------------ specifications
Workers == DOMAIN wpc

Recv == \E w \in Workers : WorkerRecv(w)
Request == \E w \in Workers : \E ok \in BOOLEAN : WorkerRequest(w, ok)
Read == \E w \in Workers : \E n \in 1..ReadChunkSize : WorkerRead(w, n)
EOF == \E w \in Workers : WorkerEOF(w)
ReadError == \E w \in Workers : WorkerReadError(w)
Probe == \E ok \in BOOLEAN : SplitterProbe(ok)
Create == \E ok \in BOOLEAN : SplitterCreate(ok)

WorkerStep == Recv \/ Request \/ Read \/ EOF \/ ReadError

ProgressStep ==
    ProgressLock \/ ProgressLockSegment \/ ProgressAdd \/ ProgressPublish

\* The program as written.  NewWorkerRegister, the steps of lines 211-241,
\* WorkerExit and CoordinatorWait are steps of the program too; none of them
\* is ever enabled (the splitter blocks at line 81 or at the next line 204,
\* and wg.Wait precedes close(segmentChan)), and they are left out of the
\* disjunction for that reason only.
Next ==
    \/ WorkerStep
    \/ ProgressStep
    \/ SplitterTick
    \/ SplitterLockPool
    \/ Probe

Spec == Init /\ [][Next]_vars

\* The program as written, with a caller that may cancel at any point.
CancelNext == Next \/ Cancel

CancelSpec == Init /\ [][CancelNext]_vars

\* The update loop of the terminal UI, fed every message in every order; the
\* engine's variables stay as launched.
TuiInit == totalSize = MaxTotalSize /\ Launched

Started == \E id \in DownloadIDs : \E n \in ByteCounts : DownloadStartedMsg(id, n)
Progressed == \E id \in DownloadIDs : \E n \in ByteCounts : ProgressMsg(id, n)
Completed == \E id \in DownloadIDs : DownloadCompleteMsg(id)
Failed == \E id \in DownloadIDs : DownloadErrorMsg(id)

TuiNext == StartDownloadKey \/ Started \/ Progressed \/ Completed \/ Failed

TuiSpec == TuiInit /\ [][TuiNext]_vars

\* The steps behind the splitter's two self-acquisitions, from the sizes
\* that admit a split, against a server that answers every request.  The
\* progress loop is left out: it writes totalDownloaded alone, which the
\* splitter reads at line 200 to end its loop, and whatever the splitter
\* does while that value is stale it does here.
SplitInit == totalSize \in SplitSizes /\ Launched

RequestOK == \E w \in Workers : WorkerRequest(w, TRUE)

SplitNext ==
    \/ Recv
    \/ RequestOK
    \/ Read
    \/ EOF
    \/ SplitterTick
    \/ SplitterEnterProbe
    \/ Probe
    \/ NewWorkerRegister
    \/ SplitterSort
    \/ SplitterCheck
    \/ SplitterShrink
    \/ Create

SplitSpec == SplitInit /\ [][SplitNext]_vars

\* ------------------------------------------------------------ the claims
Segs == DOMAIN seg

\* every part file has been closed by downloadSegment: the state in which
\* the download is complete and the merge is due
AllSegmentsDone == \A i \in Segs : seg[i].File = "closed"

\* the state in which the Finalizer would take segmentsMu (line 266): every
\* part file closed, the channel drained, every worker back at the receive,
\* no split under way
MergeDue ==
    /\ AllSegmentsDone
    /\ segmentChan = <<>>
    /\ \A w \in Workers : wpc[w] = "recv"
    /\ segmentsMu = Free

Bytes(s) == s.Start..s.End

\* C1: once every segment has been downloaded the download terminates: the
\* workers can leave their loop, or wg.Wait can return and the channel be
\* closed, or the coordinator is already at the merge.
C1_DownloadTerminates ==
    AllSegmentsDone =>
        \/ coordPc = "merge"
        \/ ENABLED CoordinatorWait
        \/ \E w \in Workers : ENABLED WorkerExit(w)

\* C2: when the merge is due the segments' ranges are pairwise disjoint and
\* their union is exactly 0 .. totalSize - 1.
C2_ExactCover ==
    MergeDue =>
        /\ \A i, j \in Segs : i # j => Bytes(seg[i]) \cap Bytes(seg[j]) = {}
        /\ UNION {Bytes(seg[i]) : i \in Segs} = 0..(totalSize - 1)

\* C3: when the merge is due, the segments taken in ID order are contiguous:
\* the first starts at 0 and each next one starts right behind the one before.
\* Stated of the segment lists that do partition the file: every byte in
\* exactly one segment (holes and overlaps are the matter of C2, C6 and C20).
Partitioned ==
    /\ 0..(totalSize - 1) \subseteq UNION {Bytes(seg[i]) : i \in Segs}
    /\ \A i, j \in Segs : i # j => Bytes(seg[i]) \cap Bytes(seg[j]) = {}

C8_FailedProbeSkipsTick ==
    /\ [][(spc = "probe" /\ spc' = "tick") =>
              UNCHANGED <<workers, segments, seg>>]_vars
    /\ [](spc = "lockPool" => ENABLED SplitterLockPool)

\* C9: after a successful probe, with a segment of Remaining >=
\* MinSegmentSize in flight, the splitter goes on to register the new worker.
C9_AdmissionProceeds ==
    (spc = "admit" /\ \E i \in Segs : Remaining(seg[i]) >= MinSegmentSize)
        => ENABLED NewWorkerRegister

\* C10: no thread takes segmentsMu while it holds a segment's lock or
\* workersMu, and no thread holds workersMu and a segment's lock together.
Threads == {"progress", "splitter"}

C10_LockOrder ==
    /\ [](\A t \in Threads :
              ~(workersMu = t /\ \E i \in Segs : segMu[i] = t))
    /\ [][\A t \in Threads :
              (segmentsMu' = t /\ segmentsMu # t) =>
                  /\ workersMu # t
                  /\ \A i \in Segs : segMu[i] # t]_vars

\* the progress loop holds segmentsMu and, taken after it, a segment's lock,
\* while the splitter holds workersMu
C10_Witness ==
    /\ segmentsMu = "progress"
    /\ \E i \in Segs : segMu[i] = "progress"
    /\ workersMu = "splitter"

\* C11: once ctx is cancelled the workers leave their loops, the splitter
\* leaves its loop and the channel is closed.  In finite form: in a state
\* after the cancellation in which the channel is drained and every worker
\* has given up its segment, either all of that has happened, or a worker can leave its loop, or
\* wg.Wait can return and the channel be closed; and the splitter is not
\* stuck in front of a mutex.
Stopped ==
    /\ \A w \in Workers : wpc[w] = "exited"
    /\ spc = "done"
    /\ chanClosed

C11_CancelStops ==
    (/\ cancelled
     /\ segmentChan = <<>>
     /\ \A w \in Workers : wpc[w] \in {"recv", "exited"}) =>
        \/ Stopped
        \/ /\ \/ ENABLED CoordinatorWait
              \/ \E w \in Workers : ENABLED WorkerExit(w)
           /\ spc = "lockPool" => ENABLED SplitterLockPool

\* C12: a worker never writes, nor counts into Downloaded, a byte at an
\* offset beyond the End its segment has at that moment, and no offset is
\* written into the part files of two segments.
Written(s) == s.Start..(s.Start + s.Downloaded - 1)

NoSplitAttempted ==
    /\ Len(segments) = InitialSegments
    /\ \A i \in Segs : seg[i].End = SeedSegment(i, totalSize).End

C15_FailedSegmentAbandoned ==
    [][/\ \A w \in Workers :
              (/\ wpc[w] \in {"request", "read"}
               /\ wpc'[w] # wpc[w]
               /\ wpc'[w] # "read"
               /\ seg'[wseg[w]].File = "open") =>
                  /\ wpc'[w] = "recv"
                  /\ wseg'[w] = NoSeg
                  /\ segmentChan' = segmentChan
                  /\ seg' = seg
       /\ \A i \in Range(segmentChan') :
              i \in Range(segmentChan) \/ i \notin Segs]_vars

\* a segment given up part-way: some bytes counted, the part file open, no
\* worker on it and not on the channel
C15_Witness ==
    \E i \in Segs :
        /\ seg[i].File = "open"
        /\ seg[i].Downloaded > 0
        /\ Remaining(seg[i]) > 0
        /\ i \notin Range(segmentChan)
        /\ \A w \in Workers : wseg[w] # i

Seeded == Len(segmentChan) = InitialSegments /\ Len(segments) = InitialSegments

C17_SeedLayout ==
    /\ Seeded =>
          LET segmentSize == totalSize \div InitialSegments
          IN /\ Segs = 0..(InitialSegments - 1)
             /\ segments = [k \in 1..InitialSegments |-> k - 1]
             /\ segmentChan = [k \in 1..InitialSegments |-> k - 1]
             /\ \A w \in Workers : wseg[w] = NoSeg
             /\ \A i \in Segs :
                   /\ seg[i].Start = i * segmentSize
                   /\ seg[i].End = IF i = InitialSegments - 1
                                   THEN totalSize
                                   ELSE (i + 1) * segmentSize - 1
                   /\ seg[i].Downloaded = 0
    /\ \A i \in 0..6 :
          /\ SeedOf(8, i, 10000003).Start = i * 1250000
          /\ SeedOf(8, i, 10000003).End = (i + 1) * 1250000 - 1
    /\ SeedOf(8, 7, 10000003).Start = 8750000
    /\ SeedOf(8, 7, 10000003).End = 10000003

\* the seeded state of a size that leaves a remainder, the progress loop
\* already summing
C17_Witness ==
    /\ Seeded
    /\ totalSize % InitialSegments # 0
    /\ ppc = "add"

\* C18: once the Downloaded of all segments add up to totalSize or more, the
\* two background loops end.  The progress loop returns when the sum it
\* has taken is totalSize or more, the splitter returns at the tick that
\* finds totalDownloaded >= totalSize, and from completion on neither loop
\* is stuck in front of a mutex short of its return.
RECURSIVE SumDownloaded(_)
SumDownloaded(S) ==
    IF S = {} THEN 0
    ELSE LET i == CHOOSE j \in S : TRUE
         IN seg[i].Downloaded + SumDownloaded(S \ {i})

DownloadComplete == SumDownloaded(Segs) >= totalSize

SplitterStep ==
    SplitterTick \/ SplitterLockPool \/ Probe \/ NewWorkerRegister

C18_LoopsEnd ==
    /\ [][/\ (ppc = "sum" /\ ppc' \notin {"sum", "add"}
                 /\ pacc >= totalSize) => ppc' = "done"
          /\ (totalDownloaded >= totalSize /\ spc = "tick"
                 /\ spc' # "tick") => spc' = "done"]_vars
    /\ [](DownloadComplete =>
              /\ ppc = "done" \/ ENABLED ProgressStep
              /\ spc \in {"tick", "done"} \/ ENABLED SplitterStep)

\* C19: the splitter never arrives at a Lock of a mutex it has locked itself
\* (workersMu at newWorker's line 81 and at the next tick's line 204), and
\* between ticks it holds no lock.
C19_NoSelfAcquire ==
    /\ spc \in {"admit", "lockPool"} => workersMu # "splitter"
    /\ spc \in {"tick", "done"} =>
          /\ workersMu # "splitter"
          /\ segmentsMu # "splitter"
          /\ \A i \in Segs : segMu[i] # "splitter"

\* C20: a tick whose part file cannot be created leaves the victim's End at
\* the value it had before the tick, and the set of bytes covered by the
\* segments as it was.
Covered(f) == UNION {Bytes(f[i]) : i \in DOMAIN f}

C21_CompleteStaysComplete ==
    [][\A k \in 1..Len(downloads) :
           (/\ downloads[k].done
            /\ ~downloads[k].err
            /\ downloads[k].Downloaded = downloads[k].Total) =>
               /\ downloads'[k].done
               /\ downloads'[k].Downloaded >= downloads[k].Downloaded]_vars

=============================================================================
